---- MODULE Spec2Model ----
(***************************************************************************)
(* Model of RdsIamAuthManager (src/RdsIamAuth.js): a connection pool whose *)
(* credential is a short-lived IAM token.  Every `await` of the source is  *)
(* a point where another call, timer callback or continuation may run, so  *)
(* each async method is split into one action per stretch of synchronous   *)
(* code.  Time is counted in minutes.                                      *)
(***************************************************************************)
EXTENDS Integers, FiniteSets, Sequences, TLC

\* ---- bounds of the model ----
NumTasks == 2   \* calls / callbacks that may be in progress at once
MaxCalls == 2   \* calls of the manager's methods (timer callbacks not counted)
MaxTime  == 13  \* last minute of the clock
MaxMinutes == 16  \* last minute of the minute-by-minute clock (SpecExpiry)
MaxSigns   == 2   \* signing calls under the minute-by-minute clock
MaxGets    == 3   \* getInstance() calls (SpecConstruct)
MaxNews    == 2   \* direct constructions of the class (SpecConstruct)
MaxTeardownCalls == 3  \* calls of the manager's methods (SpecTeardown)
MaxTimedCalls == 2  \* calls of the manager's methods (SpecTimed)
MaxRetryCalls == 2  \* calls of the manager's methods (SpecRetry)
MaxRetryTime  == 26 \* last minute of the clock (SpecRetry)
MaxEventCalls == 2  \* calls of the manager's methods (SpecEvents)
MaxEvents  == 2   \* events emitted by the pools (SpecEvents)
MaxSignals == 2   \* SIGTERM and SIGINT delivered (SpecProcess)
MaxRequests == 2  \* HTTP requests in progress at once (SpecProcess)
MaxLag     == 2   \* minutes spent waiting for the signer or the pool
                  \* (SpecTimed)

\* ---- program constants, in minutes ----
TokenValidity   == 14  \* generateAuthToken: Date.now() + 14 * 60 * 1000
TokenLifetime   == 15  \* generateAuthToken: "15분 - 1분 여유", the lifetime
                       \* of an RDS IAM token
LookAhead       == 1   \* isTokenExpired: tokenExpiryTime - 60000
RefreshInterval == 13  \* initialize: 13 * 60 * 1000

Null == 0              \* null pool / token / timer handle / expiry time
Pwd  == -1             \* credential of a pool built with DB_PWD

\* the instants at which the clock is observed: every refresh interval
Instants == {n \in 0..MaxTime : n % RefreshInterval = 0}

Tasks == 1..NumTasks

VARIABLES
    pool,                  \* this.pool
    tokenRefreshInterval,  \* this.tokenRefreshInterval
    currentToken,          \* this.currentToken
    tokenExpiryTime,       \* this.tokenExpiryTime
    useIam,                \* process.env.USE_IAM_AUTH === 'true'
    now,                   \* Date.now()
    nTokens,               \* token strings the signer has returned so far
    poolCred,              \* per pool created by mysql.createPool: the
                           \* password / auth-plugin token it was built with
    poolEnds,              \* per pool: number of end() calls it has received
    timers,                \* per timer created by setInterval: live flag and
                           \* next due time
    task,                  \* the calls in progress: position and locals
    lastInstalled,         \* history: pool created by the last refreshPool()
                           \* that returned, or by initialize()
    nInit,                 \* history: initialize() calls started
    nInitOk,               \* history: initialize() calls that succeeded
    nShutdown,             \* history: shutdown() calls started
    nCalls,                \* history: calls started, of any method
    early,                 \* history: a method other than initialize() was
                           \* called before an initialize() had succeeded
    stopped,               \* history: shutdown() has returned and
                           \* initialize() has not been called since
    caPath,                \* process.env.CA_PATH is set
    instance,              \* the module's `let instance`
    objects,               \* the RdsIamAuthManager objects constructed so
                           \* far: config.ssl, files read by the
                           \* constructor, the environment it saw, and who
                           \* called `new`
    got,                   \* history: what each getInstance() returned
    budget,                \* number of calls the behaviour may make
    issuedAt,              \* history: per token, the time it was signed
    lag,                   \* history: minutes that passed while a call was
                           \* waiting for the signer or the pool
    healthy,               \* the signer and the pools have stopped failing
    logged,                \* history: lines the pools' event listeners have
                           \* written to the console
    phase,                 \* the server process: where startServer() is
    server,                \* the server process: `let server` and the state
                           \* of the HTTP server it holds
    requests,              \* HTTP requests accepted and not yet answered
    exitCode,              \* the code the process exited with, once phase
                           \* is "exited"
    nSignals               \* history: SIGTERM and SIGINT delivered

mgr   == <<pool, tokenRefreshInterval, currentToken, tokenExpiryTime>>
pools == <<poolCred, poolEnds>>
sched == <<timers>>
modl  == <<caPath, instance, objects, got>>
meas  == <<budget, lag, healthy, logged>>
proc  == <<phase, server, requests, exitCode, nSignals>>
ext   == <<useIam, nTokens, issuedAt, modl, meas, proc>>

nPools  == Len(poolCred)
PoolIds == 1..nPools
nTimers  == Len(timers)
TimerIds == 1..nTimers
hist  == <<lastInstalled, nInit, nInitOk, nShutdown, nCalls, early, stopped>>
vars  == <<mgr, ext, now, pools, sched, task, hist>>

IdleTask ==
    [kind |-> "none", pc |-> "idle", newToken |-> Null, signedAt |-> 0,
     newPool |-> Null, result |-> "none", propagated |-> FALSE,
     delegated |-> Null, fresh |-> FALSE, delegOpen |-> FALSE,
     signs |-> 0, creates |-> 0, installed |-> Null, failedAt |-> "none",
     presented |-> Null, released |-> FALSE]

\* the state after construction
Constructed ==
    /\ pool = Null
    /\ tokenRefreshInterval = Null
    /\ currentToken = Null
    /\ tokenExpiryTime = Null
    /\ useIam \in BOOLEAN
    /\ now = 0
    /\ nTokens = 0
    /\ poolCred = <<>>
    /\ poolEnds = <<>>
    /\ timers = <<>>
    /\ task = [t \in Tasks |-> IdleTask]
    /\ lastInstalled = Null
    /\ nInit = 0
    /\ nInitOk = 0
    /\ nShutdown = 0
    /\ nCalls = 0
    /\ early = FALSE
    /\ stopped = FALSE
    /\ caPath = FALSE
    /\ instance = Null
    /\ objects = <<>>
    /\ got = <<>>
    /\ issuedAt = <<>>
    /\ lag = 0
    /\ healthy = FALSE
    /\ logged = 0
    /\ phase = "load"
    /\ server = "none"
    /\ requests = 0
    /\ exitCode = 0
    /\ nSignals = 0

Init == Constructed /\ budget = MaxCalls

\* variant of IsTokenExpired: the comparison is strict
IsTokenExpiredStrict ==
    IF tokenExpiryTime = Null THEN TRUE
    ELSE now > tokenExpiryTime - LookAhead

\* isTokenExpired()
IsTokenExpired ==
    IF tokenExpiryTime = Null THEN TRUE
    ELSE now >= tokenExpiryTime - LookAhead

\* positions at which a continuation is already queued as a microtask: it
\* runs before the clock moves and before a timer callback
Hops == {"rp_gen", "rp_install", "q_resume", "in_gen", "in_install", "done"}
HopPending == \E t \in Tasks : task[t].pc \in Hops

\* a call has settled: its caller's continuation runs next
Settled == \E t \in Tasks : task[t].pc = "done"

\* call t resumes at position p
At(t, p) == ~Settled /\ task[t].pc = p

\* a call starts in the first free slot
FreeSlot(t) ==
    /\ ~Settled
    /\ task[t].pc = "idle"
    /\ \A u \in Tasks : u < t => task[u].pc # "idle"

\* a call of one of the manager's methods begins
BeginCall(t) ==
    /\ FreeSlot(t)
    /\ nCalls < budget
    /\ nCalls' = nCalls + 1

\* ... of a method other than initialize()
BeginUse(t) ==
    /\ BeginCall(t)
    /\ early' = (early \/ nInitOk = 0)

\* variant of Throw: every error is caught and logged, as in the timer
\* callback
ThrowCaught(r, err) ==
    [r EXCEPT !.pc = "done", !.result = err,
              !.propagated = FALSE, !.failedAt = r.pc,
              !.newToken = Null, !.signedAt = 0, !.newPool = Null]

\* an error leaves the call: the timer callback catches it, every other
\* caller receives it
Throw(r, err) ==
    [r EXCEPT !.pc = "done", !.result = err,
              !.propagated = (r.kind # "tick"), !.failedAt = r.pc,
              !.newToken = Null, !.signedAt = 0, !.newPool = Null]

Finish(r) ==
    [r EXCEPT !.pc = "done", !.result = "ok",
              !.newToken = Null, !.signedAt = 0, !.newPool = Null]

\* refreshPool() up to its first await: generateAuthToken() has called
\* signer.getAuthToken()
EnterRefreshPool(r) == [r EXCEPT !.pc = "rp_sign", !.signs = @ + 1]

\* what a pool operation may answer: a pool that was ended rejects
PoolOutcomes == IF poolEnds[pool] = 0 THEN {"ok", "PoolOpError"}
                ELSE {"PoolOpError"}

\* variant of AuthPlugin: the plugin reads the manager's credential
AuthPluginCurrentToken(p) == currentToken

\* authPlugins.mysql_clear_password of pool p, invoked for a physical
\* connect: it returns the `token` its createPool() call closed over (the
\* static password is presented in password mode)
AuthPlugin(p) == poolCred[p]

\* this.pool.getConnection() / this.pool.query(): the call is handed to
\* the pool this.pool refers to at that moment, which connects with the
\* credential `presented`; the pool's answer `res` is the outcome of the call
Delegate(r, res) ==
    [r EXCEPT !.pc = "done", !.result = res, !.propagated = (res # "ok"),
              !.delegated = pool, !.presented = AuthPlugin(pool),
              !.fresh = (poolCred[pool] = currentToken /\ ~IsTokenExpired),
              !.delegOpen = (poolEnds[pool] = 0)]

\* what signer.getAuthToken() may resolve with: a token string it has not
\* returned before (the signed URL carries the signing time)
SignerTokens == {nTokens + 1}

\* generateAuthToken() after signer.getAuthToken() resolved with `tok`
GenerateAuthToken(t, tok, nextPc) ==
    /\ tok \in SignerTokens
    /\ nTokens' = IF tok > nTokens THEN tok ELSE nTokens
    /\ issuedAt' = Append(issuedAt, now)
    /\ UNCHANGED <<useIam, modl, meas, proc>>
    /\ currentToken' = tok
    /\ tokenExpiryTime' = now + TokenValidity
    /\ task' = [task EXCEPT ![t] = [@ EXCEPT !.pc = nextPc, !.newToken = tok,
                                            !.signedAt = now]]

\* createPool(token) once the token is known: mysql.createPool either
\* throws or returns a new pool; the pool reaches the caller one await later
CreatePool(t, r, token, nextPc) ==
    \/ /\ poolCred' = Append(poolCred, IF useIam THEN token ELSE Pwd)
       /\ poolEnds' = Append(poolEnds, 0)
       /\ task' = [task EXCEPT ![t] = [r EXCEPT !.pc = nextPc,
                                                !.newPool = nPools + 1,
                                                !.creates = @ + 1]]
    \/ /\ task' = [task EXCEPT ![t] = Throw(r, "PoolCreationError")]
       /\ UNCHANGED pools

\* ---- query(sql, params) and getConnection() ----
\* variant of GatedCall: the freshness gate is consulted before the
\* `!this.pool` check
GatedCallGateFirst(t, k) ==
    /\ BeginUse(t)
    /\ IF useIam /\ IsTokenExpired
       THEN task' = [task EXCEPT ![t] =
                EnterRefreshPool([IdleTask EXCEPT !.kind = k])]
       ELSE IF pool = Null
            THEN task' = [task EXCEPT ![t] =
                     Throw([IdleTask EXCEPT !.kind = k], "NotInitialized")]
            ELSE \E res \in PoolOutcomes :
                    task' = [task EXCEPT ![t] =
                               Delegate([IdleTask EXCEPT !.kind = k], res)]
    /\ UNCHANGED <<mgr, ext, now, pools, sched, lastInstalled, nInit,
                   nInitOk, nShutdown, stopped>>

\* the two methods differ only in the pool method they delegate to
GatedCall(t, k) ==
    /\ BeginUse(t)
    /\ IF pool = Null
       THEN task' = [task EXCEPT ![t] =
                Throw([IdleTask EXCEPT !.kind = k], "NotInitialized")]
       ELSE IF useIam /\ IsTokenExpired
            THEN task' = [task EXCEPT ![t] =
                     EnterRefreshPool([IdleTask EXCEPT !.kind = k])]
            ELSE \E res \in PoolOutcomes :
                    task' = [task EXCEPT ![t] =
                               Delegate([IdleTask EXCEPT !.kind = k], res)]
    /\ UNCHANGED <<mgr, ext, now, pools, sched, lastInstalled, nInit,
                   nInitOk, nShutdown, stopped>>

\* variant of CallQuery: the freshness gate does not look at the auth mode
CallQueryAnyMode(t) ==
    /\ BeginUse(t)
    /\ IF pool = Null
       THEN task' = [task EXCEPT ![t] =
                Throw([IdleTask EXCEPT !.kind = "gated"], "NotInitialized")]
       ELSE IF IsTokenExpired
            THEN task' = [task EXCEPT ![t] =
                     EnterRefreshPool([IdleTask EXCEPT !.kind = "gated"])]
            ELSE \E res \in PoolOutcomes :
                    task' = [task EXCEPT ![t] =
                               Delegate([IdleTask EXCEPT !.kind = "gated"], res)]
    /\ UNCHANGED <<mgr, ext, now, pools, sched, lastInstalled, nInit,
                   nInitOk, nShutdown, stopped>>

\* query(sql, params)
CallQuery(t) == GatedCall(t, "gated")

\* variant of CallGetConnection: the pool is rotated before every
\* connection handed out
CallGetConnectionRotates(t) ==
    /\ BeginUse(t)
    /\ IF pool = Null
       THEN task' = [task EXCEPT ![t] =
                Throw([IdleTask EXCEPT !.kind = "gated"], "NotInitialized")]
       ELSE task' = [task EXCEPT ![t] =
                EnterRefreshPool([IdleTask EXCEPT !.kind = "gated"])]
    /\ UNCHANGED <<mgr, ext, now, pools, sched, lastInstalled, nInit,
                   nInitOk, nShutdown, stopped>>

\* getConnection()
CallGetConnection(t) == GatedCall(t, "gated")

\* after `await this.refreshPool()`: this.pool is read again
QueryResume(t) ==
    /\ At(t, "q_resume")
    /\ IF pool = Null
       THEN task' = [task EXCEPT ![t] = Throw(@, "TypeError")]
       ELSE \E res \in PoolOutcomes :
               task' = [task EXCEPT ![t] = Delegate(@, res)]
    /\ UNCHANGED <<mgr, ext, now, pools, sched, hist>>

\* ---- refreshPool() ----
CallRefreshPool(t) ==
    /\ BeginUse(t)
    /\ task' = [task EXCEPT ![t] =
                   EnterRefreshPool([IdleTask EXCEPT !.kind = "refresh"])]
    /\ UNCHANGED <<mgr, ext, now, pools, sched, lastInstalled, nInit,
                   nInitOk, nShutdown, stopped>>

\* signer.getAuthToken() resolved
SignerResolve(t) ==
    /\ At(t, "rp_sign")
    /\ \E tok \in SignerTokens : GenerateAuthToken(t, tok, "rp_gen")
    /\ UNCHANGED <<pool, tokenRefreshInterval, now, pools, sched, hist>>

\* variant of SignerReject: the failed generateAuthToken() forgets the
\* credential it held
SignerRejectClearsToken(t) ==
    /\ At(t, "rp_sign")
    /\ task' = [task EXCEPT ![t] = Throw(@, "SignError")]
    /\ currentToken' = Null
    /\ tokenExpiryTime' = Null
    /\ UNCHANGED <<pool, tokenRefreshInterval, ext, now, pools, sched, hist>>

\* signer.getAuthToken() rejected: generateAuthToken() and refreshPool()
\* rethrow
SignerReject(t) ==
    /\ At(t, "rp_sign")
    /\ task' = [task EXCEPT ![t] = Throw(@, "SignError")]
    /\ UNCHANGED <<mgr, ext, now, pools, sched, hist>>

\* variant of CloseOldPool: the new pool is created while the old one is
\* still open
CloseOldPoolSkipsEnd(t) ==
    /\ At(t, "rp_gen")
    /\ CreatePool(t, task[t], task[t].newToken, "rp_install")
    /\ UNCHANGED <<mgr, ext, now, sched, hist>>

\* refreshPool() after `await this.generateAuthToken()`: end() is called
\* on the pool this.pool refers to, if any
CloseOldPool(t) ==
    /\ At(t, "rp_gen")
    /\ \/ /\ pool # Null
          /\ poolEnds' = [poolEnds EXCEPT ![pool] = @ + 1]
          /\ task' = [task EXCEPT ![t] = [@ EXCEPT !.pc = "rp_end"]]
          /\ UNCHANGED poolCred
       \/ /\ pool = Null
          /\ CreatePool(t, task[t], task[t].newToken, "rp_install")
    /\ UNCHANGED <<mgr, ext, now, sched, hist>>

\* refreshPool() after `await this.pool.end()` resolved
EndResolve(t) ==
    /\ At(t, "rp_end")
    /\ CreatePool(t, task[t], task[t].newToken, "rp_install")
    /\ UNCHANGED <<mgr, ext, now, sched, hist>>

\* variant of EndReject: the failed rotation drops the pool it could not
\* close
EndRejectDropsPool(t) ==
    /\ At(t, "rp_end")
    /\ task' = [task EXCEPT ![t] = Throw(@, "PoolEndError")]
    /\ pool' = Null
    /\ UNCHANGED <<tokenRefreshInterval, currentToken, tokenExpiryTime, ext,
                   now, pools, sched, hist>>

\* this.pool.end() rejected: refreshPool() rethrows
EndReject(t) ==
    /\ At(t, "rp_end")
    /\ task' = [task EXCEPT ![t] = Throw(@, "PoolEndError")]
    /\ UNCHANGED <<mgr, ext, now, pools, sched, hist>>

\* variant of InstallPool: refreshPool() returns without assigning
\* this.pool
InstallPoolDiscards(t) ==
    /\ At(t, "rp_install")
    /\ task' = [task EXCEPT ![t] =
          IF task[t].kind = "gated"
          THEN [@ EXCEPT !.pc = "q_resume",
                         !.newToken = Null, !.signedAt = 0, !.newPool = Null]
          ELSE Finish(@)]
    /\ UNCHANGED <<mgr, ext, now, pools, sched, hist>>

\* this.pool = <the awaited pool>; refreshPool() returns
InstallPool(t) ==
    /\ At(t, "rp_install")
    /\ pool' = task[t].newPool
    /\ lastInstalled' = task[t].newPool
    /\ task' = [task EXCEPT ![t] =
          IF task[t].kind = "gated"
          THEN [@ EXCEPT !.pc = "q_resume", !.installed = task[t].newPool,
                         !.newToken = Null, !.signedAt = 0, !.newPool = Null]
          ELSE Finish([@ EXCEPT !.installed = task[t].newPool])]
    /\ UNCHANGED <<tokenRefreshInterval, currentToken, tokenExpiryTime, ext,
                   now, pools, sched, nInit, nInitOk, nShutdown, nCalls, early,
                   stopped>>

\* ---- the setInterval callback ----
\* variant of Tick: the timer fires once, as one set by setTimeout
TickOnce(t) ==
    /\ FreeSlot(t)
    /\ ~HopPending
    /\ \E k \in TimerIds :
          /\ timers[k].live
          /\ now >= timers[k].due
          /\ timers' = [timers EXCEPT ![k].live = FALSE]
    /\ task' = [task EXCEPT ![t] =
                   EnterRefreshPool([IdleTask EXCEPT !.kind = "tick"])]
    /\ UNCHANGED <<mgr, ext, now, pools, hist>>

\* the callback runs when a live timer is due; the timer is re-armed for
\* the next interval
Tick(t) ==
    /\ FreeSlot(t)
    /\ ~HopPending
    /\ \E k \in TimerIds :
          /\ timers[k].live
          /\ now >= timers[k].due
          /\ timers' = [timers EXCEPT ![k].due = @ + RefreshInterval]
    /\ task' = [task EXCEPT ![t] =
                   EnterRefreshPool([IdleTask EXCEPT !.kind = "tick"])]
    /\ UNCHANGED <<mgr, ext, now, pools, hist>>

\* ---- initialize() ----
\* variant of CallInitialize: createPool() asks the signer for a token in
\* either mode
CallInitializeAlwaysSigns(t) ==
    /\ BeginCall(t)
    /\ nInit' = nInit + 1
    /\ stopped' = FALSE
    /\ task' = [task EXCEPT ![t] =
          [IdleTask EXCEPT !.kind = "initialize", !.pc = "in_sign",
                           !.signs = 1]]
    /\ UNCHANGED <<mgr, ext, now, pools, sched, lastInstalled, nInitOk,
                   nShutdown, early>>

\* up to the first await: createPool() calls generateAuthToken() in IAM
\* mode, mysql.createPool otherwise
CallInitialize(t) ==
    /\ BeginCall(t)
    /\ nInit' = nInit + 1
    /\ stopped' = FALSE
    /\ IF useIam
       THEN /\ task' = [task EXCEPT ![t] =
                   [IdleTask EXCEPT !.kind = "initialize", !.pc = "in_sign",
                                    !.signs = 1]]
            /\ UNCHANGED pools
       ELSE CreatePool(t, [IdleTask EXCEPT !.kind = "initialize"], Null,
                       "in_install")
    /\ UNCHANGED <<mgr, ext, now, sched, lastInstalled, nInitOk, nShutdown,
                   early>>

InitSignerResolve(t) ==
    /\ At(t, "in_sign")
    /\ \E tok \in SignerTokens : GenerateAuthToken(t, tok, "in_gen")
    /\ UNCHANGED <<pool, tokenRefreshInterval, now, pools, sched, hist>>

InitSignerReject(t) ==
    /\ At(t, "in_sign")
    /\ task' = [task EXCEPT ![t] = Throw(@, "SignError")]
    /\ UNCHANGED <<mgr, ext, now, pools, sched, hist>>

\* createPool() after `await this.generateAuthToken()`
InitCreatePool(t) ==
    /\ At(t, "in_gen")
    /\ CreatePool(t, task[t], task[t].newToken, "in_install")
    /\ UNCHANGED <<mgr, ext, now, sched, hist>>

\* this.pool = <the awaited pool>; this.pool.getConnection() is called
InitInstall(t) ==
    /\ At(t, "in_install")
    /\ pool' = task[t].newPool
    /\ lastInstalled' = task[t].newPool
    /\ task' = [task EXCEPT ![t] = [@ EXCEPT !.pc = "in_probe",
                                             !.installed = task[t].newPool,
                                             !.newToken = Null,
                                             !.signedAt = 0,
                                             !.newPool = Null]]
    /\ UNCHANGED <<tokenRefreshInterval, currentToken, tokenExpiryTime, ext,
                   now, pools, sched, nInit, nInitOk, nShutdown, nCalls, early,
                   stopped>>

\* variant of ProbeResolve: the timer is due at once
ProbeResolveFiresAtOnce(t) ==
    /\ At(t, "in_probe")
    /\ IF useIam
       THEN /\ timers' = Append(timers, [live |-> TRUE, due |-> now])
            /\ tokenRefreshInterval' = nTimers + 1
       ELSE UNCHANGED <<timers, tokenRefreshInterval>>
    /\ nInitOk' = nInitOk + 1
    /\ task' = [task EXCEPT ![t] = Finish([@ EXCEPT !.released = TRUE])]
    /\ UNCHANGED <<pool, currentToken, tokenExpiryTime, ext, now, pools,
                   lastInstalled, nInit, nShutdown, nCalls, early, stopped>>

\* the probe connection arrived: release it, start the timer in IAM mode
ProbeResolve(t) ==
    /\ At(t, "in_probe")
    /\ IF useIam
       THEN /\ timers' = Append(timers, [live |-> TRUE,
                                         due |-> now + RefreshInterval])
            /\ tokenRefreshInterval' = nTimers + 1
       ELSE UNCHANGED <<timers, tokenRefreshInterval>>
    /\ nInitOk' = nInitOk + 1
    /\ task' = [task EXCEPT ![t] = Finish([@ EXCEPT !.released = TRUE])]
    /\ UNCHANGED <<pool, currentToken, tokenExpiryTime, ext, now, pools,
                   lastInstalled, nInit, nShutdown, nCalls, early, stopped>>

\* variant of ProbeReject: the failure is logged and the refresh timer is
\* started all the same
ProbeRejectStartsTimer(t) ==
    /\ At(t, "in_probe")
    /\ IF useIam
       THEN /\ timers' = Append(timers, [live |-> TRUE,
                                         due |-> now + RefreshInterval])
            /\ tokenRefreshInterval' = nTimers + 1
       ELSE UNCHANGED <<timers, tokenRefreshInterval>>
    /\ task' = [task EXCEPT ![t] = Throw(@, "ProbeError")]
    /\ UNCHANGED <<pool, currentToken, tokenExpiryTime, ext, now, pools, hist>>

\* the probe failed: initialize() rethrows
ProbeReject(t) ==
    /\ At(t, "in_probe")
    /\ task' = [task EXCEPT ![t] = Throw(@, "ProbeError")]
    /\ UNCHANGED <<mgr, ext, now, pools, sched, hist>>

\* ---- shutdown() ----
\* up to the await: the timer is cleared and end() is called on the pool
CallShutdown(t) ==
    /\ BeginUse(t)
    /\ nShutdown' = nShutdown + 1
    /\ IF tokenRefreshInterval # Null
       THEN /\ timers' = [timers EXCEPT ![tokenRefreshInterval].live = FALSE]
            /\ tokenRefreshInterval' = Null
       ELSE UNCHANGED <<timers, tokenRefreshInterval>>
    /\ IF pool # Null
       THEN /\ poolEnds' = [poolEnds EXCEPT ![pool] = @ + 1]
            /\ task' = [task EXCEPT ![t] =
                  [IdleTask EXCEPT !.kind = "shutdown", !.pc = "sd_end"]]
            /\ UNCHANGED stopped
       ELSE /\ task' = [task EXCEPT ![t] =
                  Finish([IdleTask EXCEPT !.kind = "shutdown"])]
            /\ stopped' = TRUE
            /\ UNCHANGED poolEnds
    /\ UNCHANGED <<pool, currentToken, tokenExpiryTime, ext, now, poolCred,
                   lastInstalled, nInit, nInitOk>>

\* after `await this.pool.end()` resolved: this.pool = null
ShutdownEndResolve(t) ==
    /\ At(t, "sd_end")
    /\ pool' = Null
    /\ stopped' = TRUE
    /\ task' = [task EXCEPT ![t] = Finish(@)]
    /\ UNCHANGED <<tokenRefreshInterval, currentToken, tokenExpiryTime, ext,
                   now, pools, sched, lastInstalled, nInit, nInitOk, nShutdown,
                   nCalls, early>>

\* this.pool.end() rejected: shutdown() throws before this.pool = null
ShutdownEndReject(t) ==
    /\ At(t, "sd_end")
    /\ task' = [task EXCEPT ![t] = Throw(@, "PoolEndError")]
    /\ UNCHANGED <<mgr, ext, now, pools, sched, hist>>

\* ---- environment ----
\* the caller has received the outcome of its call
Return(t) ==
    /\ task[t].pc = "done"
    /\ task' = [task EXCEPT ![t] = IdleTask]
    /\ UNCHANGED <<mgr, ext, now, pools, sched, hist>>

\* time passes to the next observed instant; a due timer fires before the
\* clock moves on
Advance ==
    /\ ~HopPending
    /\ \A k \in TimerIds : timers[k].live => timers[k].due > now
    /\ \E n \in Instants :
          /\ n > now
          /\ \A m \in Instants : m > now => n <= m
          /\ now' = n
    /\ UNCHANGED <<mgr, ext, pools, sched, task, hist>>

Next ==
    \/ \E t \in Tasks : CallQuery(t)
    \/ \E t \in Tasks : CallGetConnection(t)
    \/ \E t \in Tasks : QueryResume(t)
    \/ \E t \in Tasks : CallRefreshPool(t)
    \/ \E t \in Tasks : SignerResolve(t)
    \/ \E t \in Tasks : SignerReject(t)
    \/ \E t \in Tasks : CloseOldPool(t)
    \/ \E t \in Tasks : EndResolve(t)
    \/ \E t \in Tasks : EndReject(t)
    \/ \E t \in Tasks : InstallPool(t)
    \/ \E t \in Tasks : Tick(t)
    \/ \E t \in Tasks : CallInitialize(t)
    \/ \E t \in Tasks : InitSignerResolve(t)
    \/ \E t \in Tasks : InitSignerReject(t)
    \/ \E t \in Tasks : InitCreatePool(t)
    \/ \E t \in Tasks : InitInstall(t)
    \/ \E t \in Tasks : ProbeResolve(t)
    \/ \E t \in Tasks : ProbeReject(t)
    \/ \E t \in Tasks : CallShutdown(t)
    \/ \E t \in Tasks : ShutdownEndResolve(t)
    \/ \E t \in Tasks : ShutdownEndReject(t)
    \/ \E t \in Tasks : Return(t)
    \/ Advance

Spec == Init /\ [][Next]_vars

\* ---- the freshness test, minute by minute ----
\* generateAuthToken() runs to completion: the signer resolves and the
\* credential and its expiry time are stored
ExpiryGenerate ==
    /\ nTokens < MaxSigns
    /\ \E tok \in SignerTokens : GenerateAuthToken(1, tok, "idle")
    /\ UNCHANGED <<pool, tokenRefreshInterval, now, pools, sched, hist>>

\* one minute passes
ExpiryMinute ==
    /\ now < MaxMinutes
    /\ now' = now + 1
    /\ UNCHANGED <<mgr, ext, pools, sched, task, hist>>

\* isTokenExpired() is called and its answer kept
ExpiryObserve ==
    /\ task' = [task EXCEPT ![1].fresh = ~IsTokenExpired]
    /\ UNCHANGED <<mgr, ext, now, pools, sched, hist>>

NextExpiry ==
    \/ ExpiryGenerate
    \/ ExpiryMinute
    \/ ExpiryObserve

SpecExpiry == Init /\ [][NextExpiry]_vars

\* ---- teardown: initialize(), shutdown() and one more call ----
InitTeardown == Constructed /\ budget = MaxTeardownCalls

SpecTeardown == InitTeardown /\ [][Next]_vars

\* ---- rotation against the token's lifetime, minute by minute ----
\* USE_IAM_AUTH is 'true'
InitTimed == Constructed /\ useIam /\ budget = MaxTimedCalls

\* the step completes no call with an error of the signer or of a pool
NoFailure ==
    \A t \in Tasks : task'[t].result \in {"none", "ok", "NotInitialized"}

\* one minute passes, counted from the call of initialize(); a due timer
\* fires before the clock moves on; a minute that passes while a call is
\* waiting for the signer or the pool is counted in lag
Minute ==
    /\ nInit > 0
    /\ now < MaxMinutes
    /\ ~HopPending
    /\ \A k \in TimerIds : timers[k].live => timers[k].due > now
    /\ now' = now + 1
    /\ IF \E t \in Tasks : task[t].pc # "idle"
       THEN lag < MaxLag /\ lag' = lag + 1
       ELSE lag' = lag
    /\ UNCHANGED <<mgr, useIam, nTokens, issuedAt, modl, budget, healthy,
                   logged, proc, pools, sched, task, hist>>

NextTimed ==
    \/ \E t \in Tasks : nInit = 0 /\ CallInitialize(t)
    \/ \E t \in Tasks : InitSignerResolve(t)
    \/ \E t \in Tasks : InitCreatePool(t) /\ NoFailure
    \/ \E t \in Tasks : InitInstall(t)
    \/ \E t \in Tasks : ProbeResolve(t)
    \/ \E t \in Tasks : nInitOk = 1 /\ CallQuery(t) /\ NoFailure
    \/ \E t \in Tasks : QueryResume(t) /\ NoFailure
    \/ \E t \in Tasks : SignerResolve(t)
    \/ \E t \in Tasks : CloseOldPool(t) /\ NoFailure
    \/ \E t \in Tasks : EndResolve(t) /\ NoFailure
    \/ \E t \in Tasks : InstallPool(t)
    \/ \E t \in Tasks : Tick(t)
    \/ \E t \in Tasks : Return(t)
    \/ Minute

SpecTimed == InitTimed /\ [][NextTimed]_vars

\* ---- retry after a failed rotation ----
\* USE_IAM_AUTH is 'true'
InitRetry == Constructed /\ useIam /\ budget = MaxRetryCalls

\* once the services are healthy, the step completes no rotation with an
\* error
Sound ==
    healthy =>
        \A t \in Tasks :
            task'[t].result \notin {"SignError", "PoolEndError",
                                    "PoolCreationError"}

\* a timer callback's refreshPool() has just failed
TickFailed ==
    \E t \in Tasks : /\ task[t].kind = "tick"
                      /\ task[t].pc = "done"
                      /\ task[t].result # "ok"

\* the services recover after a failed scheduled rotation: from now on the
\* signer and the pool operations of a rotation succeed
Heal ==
    /\ ~healthy
    /\ TickFailed
    /\ healthy' = TRUE
    /\ UNCHANGED <<mgr, useIam, nTokens, issuedAt, modl, budget, lag, logged,
                   proc, now, pools, sched, task, hist>>

\* time passes to the next firing time of the timer, counted from the call
\* of initialize(); a due timer fires before the clock moves on
AdvanceRetry ==
    /\ nInit > 0
    /\ ~HopPending
    /\ \A k \in TimerIds : timers[k].live => timers[k].due > now
    /\ now + RefreshInterval <= MaxRetryTime
    /\ now' = now + RefreshInterval
    /\ UNCHANGED <<mgr, ext, pools, sched, task, hist>>

\* initialize() once, the timer callbacks, and the queries that arrive after
\* a scheduled rotation has failed
NextRetry ==
    \/ \E t \in Tasks : nInit = 0 /\ CallInitialize(t)
    \/ \E t \in Tasks : InitSignerResolve(t)
    \/ \E t \in Tasks : InitCreatePool(t) /\ NoFailure
    \/ \E t \in Tasks : InitInstall(t)
    \/ \E t \in Tasks : ProbeResolve(t)
    \/ \E t \in Tasks : healthy /\ CallQuery(t)
    \/ \E t \in Tasks : QueryResume(t)
    \/ \E t \in Tasks : SignerResolve(t)
    \/ \E t \in Tasks : SignerReject(t) /\ Sound
    \/ \E t \in Tasks : CloseOldPool(t) /\ Sound
    \/ \E t \in Tasks : EndResolve(t) /\ Sound
    \/ \E t \in Tasks : EndReject(t) /\ Sound
    \/ \E t \in Tasks : InstallPool(t)
    \/ \E t \in Tasks : Tick(t)
    \/ \E t \in Tasks : Return(t)
    \/ AdvanceRetry
    \/ Heal

\* the timer fires when it is due, time passes, and every awaited promise
\* settles; calls of the application and the recovery of the services are
\* not forced
FairRetry ==
    /\ WF_vars(AdvanceRetry)
    /\ \A t \in Tasks :
          /\ WF_vars(Tick(t))
          /\ WF_vars(Return(t))
          /\ WF_vars(InitSignerResolve(t))
          /\ WF_vars(InitCreatePool(t) /\ NoFailure)
          /\ WF_vars(InitInstall(t))
          /\ WF_vars(ProbeResolve(t))
          /\ WF_vars(QueryResume(t))
          /\ WF_vars(SignerResolve(t))
          /\ WF_vars(CloseOldPool(t) /\ Sound)
          /\ WF_vars(EndResolve(t) /\ Sound)
          /\ WF_vars(InstallPool(t))

SpecRetry == InitRetry /\ [][NextRetry]_vars /\ FairRetry

\* ---- the pools' events ----
InitEvents == Constructed /\ budget = MaxEventCalls

\* the events a mysql2 pool emits
PoolEvents == {"acquire", "release", "enqueue"}

\* variant of Listeners: the listeners are attached in token mode only
ListenersIamOnly(p) == IF poolCred[p] # Pwd THEN PoolEvents ELSE {}

\* createPool(): pool.on('acquire'), pool.on('release'), pool.on('enqueue')
\* follow mysql.createPool() in either mode
Listeners(p) == {"acquire", "release", "enqueue"}

\* pool p emits event ev: its listener, if any, writes one line to the
\* console
Emit ==
    /\ logged < MaxEvents
    /\ \E p \in PoolIds, ev \in PoolEvents :
          logged' = IF ev \in Listeners(p) THEN logged + 1 ELSE logged
    /\ UNCHANGED <<mgr, useIam, nTokens, issuedAt, modl, budget, lag,
                   healthy, proc, now, pools, sched, task, hist>>

\* initialize() and refreshPool(), which create the pools, and the events
NextEvents ==
    \/ \E t \in Tasks : CallInitialize(t)
    \/ \E t \in Tasks : InitSignerResolve(t)
    \/ \E t \in Tasks : InitCreatePool(t)
    \/ \E t \in Tasks : InitInstall(t)
    \/ \E t \in Tasks : ProbeResolve(t)
    \/ \E t \in Tasks : CallRefreshPool(t)
    \/ \E t \in Tasks : SignerResolve(t)
    \/ \E t \in Tasks : CloseOldPool(t)
    \/ \E t \in Tasks : EndResolve(t)
    \/ \E t \in Tasks : InstallPool(t)
    \/ \E t \in Tasks : Return(t)
    \/ Emit

SpecEvents == InitEvents /\ [][NextEvents]_vars

\* ---- the server process ----
\* one initialize(), one table-creation query, one shutdown() per signal
InitProcess == Constructed /\ budget = MaxSignals + 2

\* everything but the process and the calls in flight
mach == <<mgr, useIam, nTokens, issuedAt, modl, meas, now, pools, sched,
          hist>>

\* the process is running
Alive == phase # "exited"

\* no signal handler is between server.close() and dbManager.shutdown():
\* the two are called in one synchronous run
Synced == nShutdown = nSignals

\* a call made by startServer() has settled with outcome ok / not ok
StartupSettled(t, k, ok) ==
    /\ Alive
    /\ task[t].pc = "done"
    /\ task[t].kind = k
    /\ (task[t].result = "ok") = ok

\* startServer() -> initializeDatabase(): dbManager = getInstance(), then
\* dbManager.initialize() is called
StartServer ==
    /\ Alive
    /\ phase = "load"
    /\ phase' = "init"
    /\ UNCHANGED <<mach, task, server, requests, exitCode, nSignals>>

\* the call startServer() is about to make
StartupCall(ph) ==
    /\ Alive
    /\ phase = ph
    /\ \A t \in Tasks : task[t].pc = "idle"

\* `await dbManager.initialize()` resolved: setDbManager, then the
\* table-creation query is called
InitializeResolved(t) ==
    /\ phase = "init"
    /\ StartupSettled(t, "initialize", TRUE)
    /\ phase' = "table"
    /\ task' = [task EXCEPT ![t] = IdleTask]
    /\ UNCHANGED <<mach, server, requests, exitCode, nSignals>>

\* variant of StartupRejected: the error is logged and the server is
\* started all the same
StartupRejectedListens(t, k) ==
    /\ phase = (IF k = "initialize" THEN "init" ELSE "table")
    /\ StartupSettled(t, k, FALSE)
    /\ phase' = "up"
    /\ server' = "listening"
    /\ task' = [task EXCEPT ![t] = IdleTask]
    /\ UNCHANGED <<mach, requests, exitCode, nSignals>>

\* initialize() or the table-creation query rejected: initializeDatabase()
\* rethrows, startServer() catches and calls process.exit(1)
StartupRejected(t, k) ==
    /\ phase = (IF k = "initialize" THEN "init" ELSE "table")
    /\ StartupSettled(t, k, FALSE)
    /\ phase' = "exited"
    /\ exitCode' = 1
    /\ task' = [task EXCEPT ![t] = IdleTask]
    /\ UNCHANGED <<mach, server, requests, nSignals>>

\* the table-creation query resolved: setupGracefulShutdown() installs the
\* signal handlers and server = app.listen(port)
TableResolved(t) ==
    /\ phase = "table"
    /\ StartupSettled(t, "gated", TRUE)
    /\ phase' = "up"
    /\ server' = "listening"
    /\ task' = [task EXCEPT ![t] = IdleTask]
    /\ UNCHANGED <<mach, requests, exitCode, nSignals>>

\* a request is accepted by the listening server
RequestArrives ==
    /\ Alive /\ Synced /\ ~Settled
    /\ server = "listening"
    /\ requests < MaxRequests
    /\ requests' = requests + 1
    /\ UNCHANGED <<mach, task, phase, server, exitCode, nSignals>>

\* a route handler has sent its response
RequestCompletes ==
    /\ Alive /\ Synced /\ ~Settled
    /\ requests > 0
    /\ requests' = requests - 1
    /\ UNCHANGED <<mach, task, phase, server, exitCode, nSignals>>

\* server.close(cb): once the last request is answered the server is
\* closed and cb logs
ServerClosed ==
    /\ Alive /\ Synced /\ ~Settled
    /\ server = "closing"
    /\ requests = 0
    /\ server' = "closed"
    /\ UNCHANGED <<mach, task, phase, requests, exitCode, nSignals>>

\* SIGTERM or SIGINT: the handler calls server.close(cb) and goes on, in the
\* same run, to dbManager.shutdown()
Signal ==
    /\ Alive /\ Synced /\ ~Settled
    /\ phase = "up"
    /\ nSignals < MaxSignals
    /\ nSignals' = nSignals + 1
    /\ server' = IF server = "listening" THEN "closing" ELSE server
    /\ UNCHANGED <<mach, task, phase, requests, exitCode>>

\* `await dbManager.shutdown()` resolved: process.exit(0)
HandlerResumes(t) ==
    /\ phase = "up"
    /\ StartupSettled(t, "shutdown", TRUE)
    /\ phase' = "exited"
    /\ exitCode' = 0
    /\ task' = [task EXCEPT ![t] = IdleTask]
    /\ UNCHANGED <<mach, server, requests, nSignals>>

\* `await dbManager.shutdown()` rejected: the handler's promise rejects
\* with nobody to catch it, and process.exit(0) is not reached. Node
\* either ends the process with code 1 or only warns, by version and flags
HandlerRejects(t) ==
    /\ phase = "up"
    /\ StartupSettled(t, "shutdown", FALSE)
    /\ \/ exitCode' = 1 /\ phase' = "exited"
       \/ UNCHANGED <<exitCode, phase>>
    /\ task' = [task EXCEPT ![t] = IdleTask]
    /\ UNCHANGED <<mach, server, requests, nSignals>>

NextProcess ==
    \/ StartServer
    \/ \E t \in Tasks : StartupCall("init") /\ CallInitialize(t)
    \/ \E t \in Tasks : Alive /\ InitSignerResolve(t)
    \/ \E t \in Tasks : Alive /\ InitSignerReject(t)
    \/ \E t \in Tasks : Alive /\ InitCreatePool(t)
    \/ \E t \in Tasks : Alive /\ InitInstall(t)
    \/ \E t \in Tasks : Alive /\ ProbeResolve(t)
    \/ \E t \in Tasks : Alive /\ ProbeReject(t)
    \/ \E t \in Tasks : InitializeResolved(t)
    \/ \E t \in Tasks : StartupRejected(t, "initialize")
    \/ \E t \in Tasks : StartupCall("table") /\ CallQuery(t)
    \/ \E t \in Tasks : TableResolved(t)
    \/ \E t \in Tasks : StartupRejected(t, "gated")
    \/ RequestArrives
    \/ RequestCompletes
    \/ ServerClosed
    \/ Signal
    \/ \E t \in Tasks : Alive /\ ~Synced /\ CallShutdown(t)
    \/ \E t \in Tasks : Alive /\ Synced /\ ShutdownEndResolve(t)
    \/ \E t \in Tasks : Alive /\ Synced /\ ShutdownEndReject(t)
    \/ \E t \in Tasks : HandlerResumes(t)
    \/ \E t \in Tasks : HandlerRejects(t)

SpecProcess == InitProcess /\ [][NextProcess]_vars

\* ---- construction and the module's singleton ----
\* the rest of the model: the manager's fields, the pools, the timers
rest == <<mgr, now, nTokens, issuedAt, meas, proc, pools, sched, task, hist>>

\* new RdsIamAuthManager(): config.ssl is { rejectUnauthorized: true } when
\* USE_IAM_AUTH is 'true' and undefined otherwise; the constructor opens no
\* file
Construct(via) ==
    [ssl |-> IF useIam THEN "rejectUnauthorized" ELSE "undefined",
     read |-> {},
     iam |-> useIam, ca |-> caPath, via |-> via]

\* variant of GetInstance: every call constructs
GetInstanceAlwaysNew ==
    /\ Len(got) < MaxGets
    /\ objects' = Append(objects, Construct("getInstance"))
    /\ instance' = Len(objects) + 1
    /\ got' = Append(got, instance')
    /\ UNCHANGED <<useIam, caPath, rest>>

\* getInstance()
GetInstance ==
    /\ Len(got) < MaxGets
    /\ IF instance = Null
       THEN /\ objects' = Append(objects, Construct("getInstance"))
            /\ instance' = Len(objects) + 1
       ELSE UNCHANGED <<objects, instance>>
    /\ got' = Append(got, instance')
    /\ UNCHANGED <<useIam, caPath, rest>>

\* new RdsIamAuthManager() by a user of the exported class
NewManager ==
    /\ Len(SelectSeq(objects, LAMBDA o : o.via = "new")) < MaxNews
    /\ objects' = Append(objects, Construct("new"))
    /\ UNCHANGED <<useIam, caPath, instance, got, rest>>

\* the environment is changed between two calls
SetEnv ==
    /\ \E iam \in BOOLEAN, ca \in BOOLEAN :
          /\ <<iam, ca>> # <<useIam, caPath>>
          /\ useIam' = iam
          /\ caPath' = ca
    /\ UNCHANGED <<instance, objects, got, rest>>

NextConstruct ==
    \/ GetInstance
    \/ NewManager
    \/ SetEnv

SpecConstruct == Init /\ [][NextConstruct]_vars

\* ---------------------------------------------------------------------
\* Properties
\* ---------------------------------------------------------------------
\* the manager is used as intended: initialize() was called once and had
\* succeeded before any other method was called
Orderly == nInit = 1 /\ nInitOk = 1 /\ ~early

RotationPcs == {"rp_sign", "rp_gen", "rp_end", "rp_install"}
InRotation(t) == task[t].pc \in RotationPcs
Rotators == {"tick", "refresh", "gated"}

\* the pool has been created and is on its way to `this.pool = ...`
InFlight(p) == \E t \in Tasks : task[t].newPool = p

\* C1: in token mode a call is never delegated to a stale pool: at the
\* moment query()/getConnection() hands the call to this.pool, that pool was
\* built from the current credential and isTokenExpired() is false.
C1_NeverDelegatesToStalePool ==
    \A t \in Tasks :
        (useIam /\ Orderly /\ nShutdown = 0
                /\ task[t].kind = "gated" /\ task[t].delegated # Null)
            => task[t].fresh

\* C2: rotation is single-flight: no two executions of refreshPool() started
\* by the scheduler tick or by query()/getConnection() are in progress at
\* the same time.
C2_SingleFlight ==
    Orderly => Cardinality({t \in Tasks : task[t].kind \in {"tick", "gated"}
                                  /\ InRotation(t)}) <= 1

\* C3: no pool is ever orphaned: every pool createPool() has returned is the
\* pool installed in this.pool or has had end() called on it.
C3_NoOrphanPool ==
    \A p \in PoolIds :
        p = pool \/ poolEnds[p] >= 1 \/ InFlight(p)

\* C4: in token mode, whenever this.pool is not null, currentToken is not
\* null and is the token this.pool was constructed with.
C4_CredentialMatchesPool ==
    (useIam /\ Orderly /\ nShutdown = 0 /\ pool # Null)
        => (currentToken # Null /\ poolCred[pool] = currentToken)

\* C5: in token mode a query()/getConnection() that found the credential
\* expired runs exactly one rotation (one signing call, one pool creation)
\* and delegates, after it, to the pool that rotation installed.
C5_OneRotationThenOwnPool ==
    \A t \in Tasks :
        (useIam /\ Orderly /\ task[t].kind = "gated" /\ task[t].signs >= 1
                /\ task[t].delegated # Null)
            => /\ task[t].signs = 1
               /\ task[t].creates = 1
               /\ task[t].delegated = task[t].installed

\* C6: after a successful initialize(), through any sequence of rotations,
\* this.pool is not null and is the pool created by the most recent rotation
\* that completed, or by initialize() if none has.
AfterInitialize == nInit = 1 /\ nInitOk = 1 /\ nShutdown = 0

C6_ActivePoolIsLastInstalled ==
    AfterInitialize => (pool # Null /\ pool = lastInstalled)

\* after initialize() succeeded a rotation has completed and this.pool is
\* the pool it created, the pool of initialize() being closed
C6_Witness ==
    /\ AfterInitialize
    /\ pool = lastInstalled
    /\ \E t \in Tasks : /\ task[t].pc = "done"
                        /\ task[t].kind \in {"tick", "refresh"}
                        /\ task[t].result = "ok"
                        /\ task[t].installed = pool
    /\ \E p \in PoolIds : p # pool /\ poolEnds[p] = 1

\* C7: when a rotation or shutdown() makes a pool stop being the active
\* pool, end() has been called on that pool once and only once.
C7_PriorPoolClosedOnce ==
    [][\A t \in Tasks :
          (/\ Orderly
           /\ task[t].pc \in {"rp_install", "sd_end"}
           /\ task'[t].pc # task[t].pc
           /\ pool # Null
           /\ pool' # pool)
              => poolEnds[pool] = 1]_vars

\* C8: in token mode, when refreshPool() returns successfully, currentToken
\* is the token its signing call returned, tokenExpiryTime is the time of
\* that call's return plus 14 minutes, and this.pool is the new pool built
\* with that token.
C8_RefreshInstallsItsCredential ==
    [][\A t \in Tasks :
          (useIam /\ Orderly /\ nShutdown = 0
                  /\ task[t].pc = "rp_install" /\ task'[t].pc # "rp_install")
              => /\ currentToken' = task[t].newToken
                 /\ tokenExpiryTime' = task[t].signedAt + TokenValidity
                 /\ pool' = task[t].newPool
                 /\ poolCred'[pool'] = task[t].newToken]_vars

\* C9: a rotation whose signing call fails aborts with that error and has
\* not touched the manager: neither entering refreshPool() nor the failure
\* changes this.pool, calls end() on a pool, creates a pool, or changes
\* currentToken / tokenExpiryTime.
C9_SignFailureLeavesManagerUntouched ==
    [][\A t \in Tasks :
          /\ (task[t].pc = "idle" /\ task'[t].pc = "rp_sign")
                => UNCHANGED <<mgr, pools>>
          /\ (task[t].pc = "rp_sign" /\ task'[t].pc = "done")
                => /\ task'[t].result = "SignError"
                   /\ task'[t].creates = 0
                   /\ UNCHANGED <<mgr, pools>>]_vars

\* a rotation has failed in the signing call while a pool and a credential
\* were installed
C9_Witness ==
    \E t \in Tasks :
        /\ task[t].pc = "done"
        /\ task[t].kind \in Rotators
        /\ task[t].failedAt = "rp_sign"
        /\ task[t].result = "SignError"
        /\ pool # Null
        /\ poolEnds[pool] = 0
        /\ currentToken # Null

\* C10: query()/getConnection() called while this.pool is null fails with
\* the not-initialized error, calls neither the signer nor the pool factory
\* nor any pool, and leaves the manager state unchanged.
C10_NotInitializedFailsFast ==
    [][\A t \in Tasks :
          (pool = Null /\ task[t].pc = "idle" /\ task'[t].kind = "gated")
              => /\ task'[t].pc = "done"
                 /\ task'[t].result = "NotInitialized"
                 /\ task'[t].propagated
                 /\ task'[t].signs = 0
                 /\ task'[t].creates = 0
                 /\ task'[t].delegated = Null
                 /\ UNCHANGED <<mgr, pools, sched>>]_vars

\* a call was refused in token mode while no pool was installed and the
\* credential left by an earlier call was no longer fresh
C10_Witness ==
    \E t \in Tasks :
        /\ task[t].pc = "done"
        /\ task[t].kind = "gated"
        /\ task[t].result = "NotInitialized"
        /\ pool = Null
        /\ useIam
        /\ currentToken # Null
        /\ IsTokenExpired

\* C11: when the rotation started inside query()/getConnection() fails, the
\* rotation's error reaches that caller and the call is handed to no pool.
C11_RotationFailureReachesCaller ==
    \A t \in Tasks :
        (task[t].kind = "gated" /\ task[t].pc = "done"
                /\ task[t].failedAt \in RotationPcs)
            => /\ task[t].propagated
               /\ task[t].result \in {"SignError", "PoolEndError",
                                       "PoolCreationError"}
               /\ task[t].delegated = Null
               /\ task[t].presented = Null

\* a query()/getConnection() has failed because the end() of its rotation
\* rejected, while a pool is still installed
C11_Witness ==
    \E t \in Tasks :
        /\ task[t].kind = "gated"
        /\ task[t].pc = "done"
        /\ task[t].failedAt = "rp_end"
        /\ task[t].result = "PoolEndError"
        /\ task[t].signs = 1
        /\ pool # Null

C13_ShutdownIdempotentAndSafe ==
    \A t \in Tasks :
        (/\ task[t].kind = "shutdown"
         /\ task[t].pc = "done"
         /\ \A u \in Tasks : u # t => task[u].pc = "idle")
            => /\ task[t].result = "ok"
               /\ ~task[t].propagated
               /\ pool = Null
               /\ tokenRefreshInterval = Null
               /\ \A k \in TimerIds : ~timers[k].live

\* C14: when this.pool.end() fails during shutdown(), shutdown() does not
\* throw and the state is cleared: this.pool and tokenRefreshInterval are
\* null.
C14_ShutdownSwallowsCloseFailure ==
    [][\A t \in Tasks :
          (/\ task[t].pc = "sd_end"
           /\ task'[t].pc = "done"
           /\ task'[t].failedAt = "sd_end"
           /\ \A u \in Tasks : u # t => task[u].pc = "idle")
              => /\ ~task'[t].propagated
                 /\ pool' = Null
                 /\ tokenRefreshInterval' = Null]_vars

\* C15: after shutdown() has returned, and until initialize() is called
\* again, no timer callback runs: no scheduled rotation is started.
C15_NoTickAfterShutdown ==
    [][\A t \in Tasks :
          (task[t].pc = "idle" /\ task'[t].kind = "tick") => ~stopped]_vars

\* C16: when the probe this.pool.getConnection() of initialize() fails,
\* initialize() fails with the probe's error, which reaches the caller, and
\* no refresh timer is started.
C16_ProbeFailureFailsInitialize ==
    [][\A t \in Tasks :
          (/\ task[t].pc = "in_probe"
           /\ task'[t].pc = "done"
           /\ ~task'[t].released)
              => /\ task'[t].result = "ProbeError"
                 /\ task'[t].propagated
                 /\ UNCHANGED <<timers, tokenRefreshInterval>>]_vars

\* in token mode an initialize() has failed on its probe and no timer
\* exists
C16_Witness ==
    \E t \in Tasks :
        /\ useIam
        /\ task[t].kind = "initialize"
        /\ task[t].pc = "done"
        /\ task[t].failedAt = "in_probe"
        /\ task[t].result = "ProbeError"
        /\ nTimers = 0
        /\ tokenRefreshInterval = Null

C18_PasswordModeHasNoScheduler ==
    ~useIam =>
        /\ tokenRefreshInterval = Null
        /\ nTimers = 0
        /\ \A p \in PoolIds : poolCred[p] = Pwd
        /\ \A t \in Tasks :
              task[t].kind = "initialize"
                 => task[t].signs = 0 /\ task[t].newToken = Null

\* in password mode initialize() has succeeded and its pool is installed
C18_Witness ==
    /\ ~useIam
    /\ nInitOk = 1
    /\ pool # Null
    /\ poolCred[pool] = Pwd
    /\ \E t \in Tasks : /\ task[t].kind = "initialize"
                        /\ task[t].pc = "done"
                        /\ task[t].result = "ok"
                        /\ task[t].installed = pool

\* C19: in token mode the credential a pool presents when it connects is
\* the token that pool was created with, whatever currentToken has become.
C19_PluginReturnsPoolToken ==
    \A t \in Tasks :
        (useIam /\ task[t].delegated # Null)
            => task[t].presented = poolCred[task[t].delegated]

\* a call was served by a pool that presented its own token after a
\* rotation had replaced currentToken
C19_Witness ==
    \E t \in Tasks :
        /\ useIam
        /\ task[t].delegated # Null
        /\ task[t].result = "ok"
        /\ task[t].presented = poolCred[task[t].delegated]
        /\ task[t].presented # currentToken

\* C20: isTokenExpired() is true while no credential was ever generated;
\* once one was generated it is false from the minute of issue up to 12
\* minutes after it and true from 13 minutes after issue onward, which is
\* tokenExpiryTime minus one minute.
C20_ExpiryWindow ==
    /\ nTokens = 0 => IsTokenExpired
    /\ nTokens > 0 =>
          /\ IsTokenExpired <=> (now >= task[1].signedAt + 13)
          /\ IsTokenExpired <=> (now >= tokenExpiryTime - 1)

\* exactly 13 minutes after a credential was generated it counts as expired
C20_Witness ==
    /\ nTokens > 0
    /\ now = task[1].signedAt + 13
    /\ tokenExpiryTime = now + 1
    /\ IsTokenExpired
    /\ task[1].fresh

\* C23: a rotation creates its pool only after it has called end() on the
\* pool it found in this.pool, which stays in this.pool meanwhile; a
\* query()/getConnection() that arrives while this.pool is such a closed
\* pool, and does not rotate itself, is handed to that closed pool.
C23_ClosedPoolWindow ==
    [][\A t \in Tasks :
          /\ (task[t].kind \in Rotators
                  /\ task'[t].creates > task[t].creates)
                => \/ task[t].pc = "rp_end"
                   \/ task[t].pc = "rp_gen" /\ pool = Null
          /\ (task[t].pc = "rp_gen" /\ task'[t].pc = "rp_end")
                => /\ pool' = pool
                   /\ poolEnds'[pool] = poolEnds[pool] + 1
                   /\ poolCred' = poolCred
          /\ (/\ task[t].pc = "idle"
              /\ task'[t].kind = "gated"
              /\ pool # Null
              /\ poolEnds[pool] >= 1
              /\ ~(useIam /\ IsTokenExpired))
                => /\ task'[t].delegated = pool
                   /\ ~task'[t].delegOpen
      ]_vars

\* while a rotation is waiting for end() of the installed pool, a
\* query()/getConnection() has been handed to that pool
C23_Witness ==
    /\ Orderly
    /\ pool # Null
    /\ poolEnds[pool] = 1
    /\ \E u \in Tasks : task[u].pc = "rp_end"
    /\ \E t \in Tasks : /\ task[t].kind = "gated"
                        /\ task[t].pc = "done"
                        /\ task[t].delegated = pool
                        /\ ~task[t].delegOpen

\* C24: when createPool() throws during a rotation that found a pool
\* installed, the error reaches the rotation's caller and the manager is as
\* it was before the rotation: this.pool is the previous pool, no end() was
\* called on it, and the credential is the one that pool was built with.
C24_FailedCreateKeepsPriorState ==
    [][\A t \in Tasks :
          (/\ Orderly
           /\ useIam
           /\ pool # Null
           /\ task[t].kind \in Rotators
           /\ InRotation(t)
           /\ task'[t].pc = "done"
           /\ task'[t].result = "PoolCreationError")
            => /\ task[t].kind # "tick" => task'[t].propagated
               /\ pool' = pool
               /\ poolEnds'[pool] = 0
               /\ currentToken' = poolCred[pool]
      ]_vars

\* C25: a rejection of end() on the previously installed pool does not end
\* the rotation: the step that follows the await of end() goes on to create
\* the new pool, and the rotation never fails with the error of end().
C25_CloseFailureNotFatal ==
    [][\A t \in Tasks :
          (/\ Orderly
           /\ useIam
           /\ task[t].pc = "rp_end"
           /\ task'[t].pc # "rp_end")
            => /\ task'[t].result # "PoolEndError"
               /\ task'[t].pc = "done" => task'[t].result = "PoolCreationError"
      ]_vars

\* C30: in password mode the signer is never called, by refreshPool() or
\* otherwise, and no call fails with the signer's error.
C30_PasswordModeNeverSigns ==
    ~useIam =>
        /\ nTokens = 0
        /\ \A t \in Tasks : /\ task[t].signs = 0
                            /\ task[t].pc # "rp_sign"
                            /\ task[t].result # "SignError"

\* C29: in password mode a query()/getConnection() that finds a pool
\* installed is handed to that pool in the same step: it does not enter
\* refreshPool(), does not call the signer, and changes nothing of the
\* manager or of the pools, although isTokenExpired() is true.
C29_PasswordModeGateClosed ==
    [][\A t \in Tasks :
          (/\ ~useIam
           /\ pool # Null
           /\ task[t].pc = "idle"
           /\ task'[t].kind = "gated")
            => /\ task'[t].pc = "done"
               /\ task'[t].delegated = pool
               /\ task'[t].signs = 0
               /\ task'[t].creates = 0
               /\ UNCHANGED <<mgr, pools, nTokens>>
      ]_vars

\* password mode, no token was ever generated, isTokenExpired() is true,
\* and a query()/getConnection() was answered by the installed pool
C29_Witness ==
    /\ Orderly
    /\ ~useIam
    /\ nTokens = 0
    /\ IsTokenExpired
    /\ pool # Null
    /\ \E t \in Tasks : /\ task[t].kind = "gated"
                        /\ task[t].pc = "done"
                        /\ task[t].result = "ok"
                        /\ task[t].delegated = pool
                        /\ task[t].delegOpen

\* C21: getInstance() always returns the module's one instance: at most
\* one object is ever constructed by getInstance(), and every call returned
\* that object.
C21_GetInstanceSingleton ==
    /\ Len(SelectSeq(objects, LAMBDA o : o.via = "getInstance")) <= 1
    /\ \A k \in 1..Len(got) :
          /\ got[k] = instance
          /\ got[k] \in 1..Len(objects)
          /\ objects[got[k]].via = "getInstance"

\* getInstance() was called three times, the environment differs from the
\* one the instance was constructed under, and the class was also
\* instantiated directly
C21_Witness ==
    /\ Len(got) >= 3
    /\ objects[instance].iam # useIam
    /\ \E i \in 1..Len(objects) : objects[i].via = "new"

\* C22: a manager constructed with USE_IAM_AUTH 'true' and CA_PATH set has
\* read the file at CA_PATH and has an SSL config; one constructed with
\* USE_IAM_AUTH not 'true' has no SSL config.
C22_ConstructorReadsCaBundle ==
    \A i \in 1..Len(objects) :
        /\ (objects[i].iam /\ objects[i].ca)
              => /\ "CA_PATH" \in objects[i].read
                 /\ objects[i].ssl # "undefined"
        /\ ~objects[i].iam => objects[i].ssl = "undefined"

\* shutdown() has been called and initialize() has not been called since
ShutdownBegun == stopped \/ \E u \in Tasks : task[u].kind = "shutdown"

\* C26: shutdown() cancels the timer in the step in which it is called,
\* before this.pool is released; and once shutdown() has been called on a
\* manager used in order, no rotation is started: no timer callback and no
\* query()/getConnection() enters refreshPool().
C26_NoRotationAfterShutdownBegan ==
    [][\A t \in Tasks :
          /\ (task[t].pc = "idle" /\ task'[t].kind = "shutdown")
                => /\ tokenRefreshInterval' = Null
                   /\ tokenRefreshInterval # Null
                        => ~timers'[tokenRefreshInterval].live
                   /\ pool' = pool
          /\ (/\ Orderly
              /\ ShutdownBegun
              /\ task[t].pc = "idle"
              /\ task'[t].pc = "rp_sign")
                => task'[t].kind \notin {"tick", "gated"}
      ]_vars

\* age of the credential the installed pool was built with
InstalledAge == now - issuedAt[poolCred[pool]]

\* initialize() was called once, before any other method
InitializedOnce == nInit = 1 /\ ~early

FreshInstalled ==
    /\ pool # Null
    /\ poolEnds[pool] = 0
    /\ InstalledAge < RefreshInterval

\* C28: a failed scheduled rotation is retried: once a timer callback's
\* rotation has failed and the signer and the pools have stopped failing,
\* then, while a firing time of the timer remains, a pool that is open and
\* built from a credential not yet logically expired is eventually
\* installed.
C28_FailedRotationIsRetried ==
    (/\ TickFailed
     /\ healthy
     /\ Orderly
     /\ now + RefreshInterval <= MaxRetryTime)
        ~> (FreshInstalled /\ ~TickFailed)

\* the tick at minute 13 signed the second token and failed before it had
\* created a pool, the services recovered, and the tick at minute 26 has
\* installed a pool built from the token it signed
C28_Witness ==
    /\ healthy
    /\ Orderly
    /\ now = 2 * RefreshInterval
    /\ issuedAt = <<0, RefreshInterval, 2 * RefreshInterval>>
    /\ nPools = 2
    /\ FreshInstalled
    /\ poolCred[pool] = 3
    /\ \E t \in Tasks :
          /\ task[t].kind = "tick"
          /\ task[t].pc = "done"
          /\ task[t].result = "ok"
          /\ task[t].installed = pool
          /\ \A u \in Tasks : u # t => task[u].pc = "idle"

\* C39: a query()/getConnection() called while the credential is not
\* expired, or in password mode, completes without entering refreshPool():
\* this.pool, currentToken, tokenExpiryTime and tokenRefreshInterval, the
\* pools, the timers and the number of tokens signed are as before.
C39_FreshCallLeavesManagerUnchanged ==
    [][\A t \in Tasks :
          (/\ task[t].pc = "idle"
           /\ task'[t].kind = "gated"
           /\ ~(useIam /\ IsTokenExpired))
            => /\ task'[t].pc = "done"
               /\ task'[t].signs = 0
               /\ task'[t].creates = 0
               /\ UNCHANGED <<mgr, pools, sched, nTokens>>
      ]_vars

\* token mode, the credential signed by initialize() is not expired, and a
\* query()/getConnection() was answered by the pool initialize() installed
C39_Witness ==
    /\ Orderly
    /\ useIam
    /\ ~IsTokenExpired
    /\ nTokens = 1
    /\ nPools = 1
    /\ pool = 1
    /\ \E t \in Tasks : /\ task[t].kind = "gated"
                        /\ task[t].pc = "done"
                        /\ task[t].result = "ok"
                        /\ task[t].delegated = pool

\* C34: on a manager used in order, a query()/getConnection() that found
\* this.pool installed never
\* reads a null this.pool when it resumes after its rotation: no call ends
\* with the TypeError of `this.pool.query` / `this.pool.getConnection` on
\* null.
C34_NoNullPoolDereference ==
    Orderly => \A t \in Tasks : task[t].result # "TypeError"

\* C35: on a manager used in order, once shutdown() has returned and
\* initialize() has not been called again, this.pool is null.
C35_PoolStaysNullAfterShutdown ==
    (Orderly /\ stopped) => pool = Null

\* C36: when the probe of initialize() fails, this.pool is null again and
\* the pool that was created has been ended; a query()/getConnection() that
\* follows a failed initialize() fails with the not-initialized error.
C36_FailedInitializeLeavesNoPool ==
    [][\A t \in Tasks :
          /\ (task[t].pc = "in_probe" /\ task'[t].result = "ProbeError")
                => /\ pool' = Null
                   /\ poolEnds'[pool] >= 1
          /\ (/\ nInit = 1
              /\ nInitOk = 0
              /\ ~early
              /\ \A u \in Tasks : task[u].pc = "idle"
              /\ task'[t].kind = "gated")
                => task'[t].result = "NotInitialized"
      ]_vars

\* C37: at most one timer is live, and it is the one tokenRefreshInterval
\* holds.
C37_OneLiveTimer ==
    \A k \in TimerIds : timers[k].live => k = tokenRefreshInterval

\* C38: while a timer is live, a pool is installed.
C38_LiveTimerHasPool ==
    (\E k \in TimerIds : timers[k].live) => pool # Null

\* C33: every pool created has the acquire, release and enqueue listeners,
\* in either auth mode, and a step in which a listener runs leaves
\* this.pool, currentToken, tokenExpiryTime, tokenRefreshInterval, the
\* pools and the timers unchanged.
C33_ListenersOnlyLog ==
    [][/\ \A p \in PoolIds : Listeners(p) = PoolEvents
       /\ logged' # logged => UNCHANGED <<mgr, pools, sched, nTokens>>
      ]_vars

\* password mode: initialize() and refreshPool() have each created a pool,
\* and listeners of these pools have run twice
C33_Witness ==
    /\ ~useIam
    /\ nPools = 2
    /\ pool = 2
    /\ logged = 2

\* C31: the server starts listening only in the step in which the
\* table-creation query has resolved, initialize() having succeeded before;
\* when initialize() or the table-creation query has rejected, the next
\* step is process.exit(1) with the server not listening, and nothing
\* happens after the exit.
C31_ListenOnlyAfterStartup ==
    [][/\ (server = "none" /\ server' # "none") =>
            /\ nInitOk >= 1
            /\ \E t \in Tasks : StartupSettled(t, "gated", TRUE)
       /\ (/\ phase \in {"init", "table"}
           /\ \E t \in Tasks : task[t].pc = "done" /\ task[t].result # "ok")
            => (phase' = "exited" /\ exitCode' = 1 /\ server' = "none")
       /\ phase = "exited" => server' = server
      ]_vars

\* initialize() and the table-creation query have succeeded, in that
\* order, and the server listens
C31_Witness ==
    /\ phase = "up"
    /\ server = "listening"
    /\ nInit = 1
    /\ nInitOk = 1
    /\ nCalls = 2
    /\ pool # Null
    /\ nSignals = 0

\* C32: when the process has exited with code 0, shutdown() has closed the
\* pool (this.pool is null and every pool created was ended) and no
\* request is still in progress.
C32_GracefulExit ==
    (phase = "exited" /\ exitCode = 0) =>
        /\ pool = Null
        /\ \A p \in PoolIds : poolEnds[p] >= 1
        /\ requests = 0
====
